---- MODULE Spec2Model ----
(***************************************************************************)
(* Tour Assistant (src/tour_assistant.py): the weather-window tool, the    *)
(* tool dispatcher and the conversation loop run_cli.                      *)
(*                                                                         *)
(* Representation.  A Python str is a sequence of string pieces whose      *)
(* concatenation is the text (a typed line is a sequence of one-character  *)
(* pieces, so that strip() and lower() are computed character by          *)
(* character).  A Python value is a record tagged by its type in field t.  *)
(* A str holding a JSON document is denoted by the value it encodes        *)
(* (field json); a str that is no JSON document has only its pieces.       *)
(* The result of a call is a record saying whether it returned or raised.  *)
(***************************************************************************)
EXTENDS Integers, Sequences, FiniteSets, TLC

VARIABLES
  messages,    \* run_cli: the transcript (local `messages`)
  pc,          \* run_cli: position of the loop
  pending,     \* run_cli: requests of the current reply not yet dispatched
  line,        \* run_cli: the raw line most recently returned by input()
  modelCalls,  \* number of chat-completion calls made so far
  printed,     \* text most recently shown by print_response
  dispatched,  \* ids handed to handle_tool_call for the current reply, in order
  fault,       \* exception that left run_cli, "" when none
  op,          \* direct call: which function was called last
  call,        \* direct call: its inputs
  outcome      \* direct call: its result

vars == <<messages, pc, pending, line, modelCalls, printed, dispatched,
          fault, op, call, outcome>>
cliVars == <<messages, pc, pending, line, modelCalls, printed, dispatched, fault>>
toolVars == <<op, call, outcome>>

-----------------------------------------------------------------------------
(* Bounds of the model *)

\* the transcript never grows beyond this many messages
MaxMsgs == 7
\* a model reply carries at most this many tool requests
MaxCalls == 2
\* at most this many chat-completion calls in one run
MaxModelCalls == 3
\* the forecast provider returns at most this many hourly timestamps, with
\* temperature and precipitation series of any length up to it
MaxT == 5
\* the longest full-length hourly series the forecast provider returns
MaxLongT == 26

-----------------------------------------------------------------------------
(* Python values *)

PyInt(n) == [t |-> "int", v |-> n]
PyStr(pieces) == [t |-> "str", s |-> pieces]
PyNone == [t |-> "none"]
PyList(xs) == [t |-> "list", items |-> xs]
PyDict(f) == [t |-> "dict", d |-> f]
EmptyMap == [k \in {} |-> PyNone]

\* dict.get(key, default)
DictGet(m, key, default) == IF key \in DOMAIN m.d THEN m.d[key] ELSE default

\* truth value of a Python object (`not x`, `x or y`)
Truthy(x) ==
  CASE x.t = "none" -> FALSE
    [] x.t = "int"  -> x.v # 0
    [] x.t = "str"  -> "json" \in DOMAIN x \/ x.s # <<>>
    [] x.t = "list" -> x.items # <<>>
    [] x.t = "dict" -> DOMAIN x.d # {}
    [] OTHER        -> TRUE

\* the outcome of a call: a returned value or a raised exception, with the
\* number of provider calls it issued
Returned(v, g, f) ==
  [raised |-> FALSE, exc |-> "", value |-> v, geoCalls |-> g, fcCalls |-> f]
Raised(e, g, f) ==
  [raised |-> TRUE, exc |-> e, value |-> PyNone, geoCalls |-> g, fcCalls |-> f]

Min(a, b) == IF a < b THEN a ELSE b
Max(a, b) == IF a > b THEN a ELSE b

-----------------------------------------------------------------------------
(* JSON text *)

\* json.dumps(v): the str that is the JSON document of v
JsonDumps(v) == [t |-> "str", json |-> v]
\* a str that is not a JSON document
NotJson(pieces) == PyStr(pieces)

\* parse_arguments: json.loads(raw), {} on JSONDecodeError
ParseArguments(raw) == IF "json" \in DOMAIN raw THEN raw.json ELSE PyDict(EmptyMap)

-----------------------------------------------------------------------------
(* fetch_weather_window *)

WeatherTool == "fetch_weather_window"

\* variant of ClampHours: no upper limit
ClampHoursNoCap(hours) == Max(1, hours)

\* hours = max(1, min(hours, 24))
ClampHours(hours) == Max(1, Min(hours, 24))

\* variant of ErrorResult: an empty sample list accompanies the error
ErrorResultWithSamples(city, pieces) ==
  PyDict([city |-> city, error |-> PyStr(pieces), window_hours |-> PyInt(0),
          samples |-> PyList(<<>>)])

\* lines 49, 54, 71: a result that reports a failure
ErrorResult(city, pieces) == PyDict([city |-> city, error |-> PyStr(pieces)])

\* lines 40-54: the geocoding try block.  A provider response is a transport
\* failure, a non-success status, a body that is no JSON, or a JSON body.
\* requests raises RequestException subclasses for the first three.
Geocode(city, geo) ==
  IF geo.kind \in {"transport", "status", "notjson"}
  THEN [k |-> "return", value |-> ErrorResult(city, <<"Geocoding failed: ", geo.msg>>)]
  ELSE LET geo_json == geo.body IN
       IF geo_json.t # "dict" THEN [k |-> "raise", exc |-> "AttributeError"]
       ELSE LET results == DictGet(geo_json, "results", PyNone) IN
            IF ~Truthy(results)
            THEN [k |-> "return", value |-> ErrorResult(city, <<"No geocoding match">>)]
            ELSE IF results.t # "list" THEN [k |-> "raise", exc |-> "KeyError"]
            ELSE LET result == results.items[1] IN
                 IF result.t # "dict" THEN [k |-> "raise", exc |-> "TypeError"]
                 ELSE IF ~({"latitude", "longitude"} \subseteq DOMAIN result.d)
                 THEN [k |-> "raise", exc |-> "KeyError"]
                 ELSE [k |-> "coords", latitude |-> result.d["latitude"],
                       longitude |-> result.d["longitude"]]

\* lines 56-71: the forecast try block
Forecast(city, fc) ==
  IF fc.kind \in {"transport", "status", "notjson"}
  THEN [k |-> "return", value |-> ErrorResult(city, <<"Forecast fetch failed: ", fc.msg>>)]
  ELSE [k |-> "data", data |-> fc.body]

\* variant of Sample: a missing reading is filled with the last one of the
\* series
SampleCarryLast(times, temps, precip, idx) ==
  PyDict([time |-> times[idx + 1],
          temperature_c |->
              IF idx < Len(temps) THEN temps[idx + 1]
              ELSE IF temps # <<>> THEN temps[Len(temps)] ELSE PyNone,
          precipitation_probability |->
              IF idx < Len(precip) THEN precip[idx + 1]
              ELSE IF precip # <<>> THEN precip[Len(precip)] ELSE PyNone])

\* lines 79-85: one sample, idx counted from 0
Sample(times, temps, precip, idx) ==
  PyDict([time |-> times[idx + 1],
          temperature_c |-> IF idx < Len(temps) THEN temps[idx + 1] ELSE PyNone,
          precipitation_probability |->
              IF idx < Len(precip) THEN precip[idx + 1] ELSE PyNone])

\* lines 77-85: samples for idx in range(n)
RECURSIVE Samples(_, _, _, _)
Samples(times, temps, precip, n) ==
  IF n <= 0 THEN <<>>
  ELSE Append(Samples(times, temps, precip, n - 1),
              Sample(times, temps, precip, n - 1))

\* variant of WindowLen: the whole series is returned
WindowLenAll(hours, times) == Len(times)

\* range(min(hours, len(times)))
WindowLen(hours, times) == Min(hours, Len(times))

\* lines 73-92: windowing of the forecast body
Window(city, hours, coords, data) ==
  IF data.t # "dict" THEN Raised("AttributeError", 1, 1)
  ELSE LET hourly == DictGet(data, "hourly", PyDict(EmptyMap)) IN
       IF hourly.t # "dict" THEN Raised("AttributeError", 1, 1)
       ELSE LET times == DictGet(hourly, "time", PyList(<<>>))
                temps == DictGet(hourly, "temperature_2m", PyList(<<>>))
                precip == DictGet(hourly, "precipitation_probability", PyList(<<>>))
            IN IF times.t # "list" THEN Raised("TypeError", 1, 1)
               ELSE IF WindowLen(hours, times.items) > 0
                       /\ (temps.t # "list" \/ precip.t # "list")
               THEN Raised("TypeError", 1, 1)
               ELSE LET samples == Samples(times.items, temps.items, precip.items,
                                           WindowLen(hours, times.items))
                    IN Returned(PyDict([city |-> city,
                                        latitude |-> coords.latitude,
                                        longitude |-> coords.longitude,
                                        window_hours |-> PyInt(Len(samples)),
                                        samples |-> PyList(samples)]), 1, 1)

\* variant of FetchWeatherWindow: a geocoding call that did not produce
\* coordinates is issued a second time before giving up
FetchWeatherWindowRetries(city, hours, geo, fc) ==
  IF hours.t # "int" THEN Raised("TypeError", 0, 0)
  ELSE LET h == ClampHours(hours.v)
           g == Geocode(city, geo)
       IN CASE g.k = "return" -> Returned(g.value, 2, 0)
            [] g.k = "raise"  -> Raised(g.exc, 2, 0)
            [] OTHER ->
                 LET f == Forecast(city, fc) IN
                 IF f.k = "return" THEN Returned(f.value, 1, 1)
                 ELSE Window(city, h, g, f.data)

\* lines 38-92
FetchWeatherWindow(city, hours, geo, fc) ==
  IF hours.t # "int" THEN Raised("TypeError", 0, 0)
  ELSE LET h == ClampHours(hours.v)
           g == Geocode(city, geo)
       IN CASE g.k = "return" -> Returned(g.value, 1, 0)
            [] g.k = "raise"  -> Raised(g.exc, 1, 0)
            [] OTHER ->
                 LET f == Forecast(city, fc) IN
                 IF f.k = "return" THEN Returned(f.value, 1, 1)
                 ELSE Window(city, h, g, f.data)

-----------------------------------------------------------------------------
(* handle_tool_call *)

UnknownToolResult(name) == PyDict([error |-> PyStr(<<"Unknown tool ", name>>)])

\* line 130: fetch_weather_window(**args), the binding of the keyword
\* arguments to the signature (city, hours=12)
CallFetchWithKwargs(args, geo, fc) ==
  IF args.t # "dict" THEN Raised("TypeError", 0, 0)
  ELSE IF ~(DOMAIN args.d \subseteq {"city", "hours"}) THEN Raised("TypeError", 0, 0)
  ELSE IF "city" \notin DOMAIN args.d THEN Raised("TypeError", 0, 0)
  ELSE FetchWeatherWindow(args.d["city"], DictGet(args, "hours", PyInt(12)), geo, fc)

\* variant of IsWeatherTool: any named tool is routed to the weather tool
IsWeatherToolLoose(name) == name # ""

\* whether the dispatcher routes the request to the weather tool (line 129)
IsWeatherTool(name) == name = WeatherTool

\* lines 126-131
HandleToolCall(tool_call, geo, fc) ==
  LET name == tool_call.function.name
      args == ParseArguments(tool_call.function.arguments)
  IN IF IsWeatherTool(name) THEN CallFetchWithKwargs(args, geo, fc)
     ELSE Returned(UnknownToolResult(name), 0, 0)

-----------------------------------------------------------------------------
(* Text: str.strip, str.lower, extract_text *)

UpperCase == <<"A", "B", "C", "D", "E", "F", "G", "H", "I", "J", "K", "L", "M",
               "N", "O", "P", "Q", "R", "S", "T", "U", "V", "W", "X", "Y", "Z">>
LowerCase == <<"a", "b", "c", "d", "e", "f", "g", "h", "i", "j", "k", "l", "m",
               "n", "o", "p", "q", "r", "s", "t", "u", "v", "w", "x", "y", "z">>

LowerChar(c) ==
  IF \E i \in DOMAIN UpperCase : UpperCase[i] = c
  THEN LowerCase[CHOOSE i \in DOMAIN UpperCase : UpperCase[i] = c]
  ELSE c

\* str.lower()
RECURSIVE Lower(_)
Lower(s) == IF s = <<>> THEN <<>> ELSE <<LowerChar(Head(s))>> \o Lower(Tail(s))

IsSpace(c) == c \in {" ", "\t"}

RECURSIVE LStrip(_)
LStrip(s) == IF s # <<>> /\ IsSpace(Head(s)) THEN LStrip(Tail(s)) ELSE s
RECURSIVE RStrip(_)
RStrip(s) ==
  IF s # <<>> /\ IsSpace(s[Len(s)]) THEN RStrip(SubSeq(s, 1, Len(s) - 1)) ELSE s
\* variant of Strip: the line is used as typed
StripNothing(s) == s

\* str.strip()
Strip(s) == RStrip(LStrip(s))

\* lines 139-142: the text of the parts tagged "text", in order
RECURSIVE JoinTextParts(_)
JoinTextParts(parts) ==
  IF parts = <<>> THEN <<>>
  ELSE LET part == Head(parts)
           chunk == IF part.t = "dict"
                       /\ DictGet(part, "type", PyNone) = PyStr(<<"text">>)
                    THEN DictGet(part, "text", PyStr(<<>>)).s
                    ELSE <<>>
       IN chunk \o JoinTextParts(Tail(parts))

\* lines 134-143
ExtractText(payload) ==
  CASE payload.t = "str"  -> payload.s
    [] payload.t = "list" -> JoinTextParts(payload.items)
    [] OTHER              -> <<>>

Placeholder == <<"Assistant returned no narrative.">>

\* line 220
Printable(assistant_text) ==
  IF Strip(assistant_text) # <<>> THEN Strip(assistant_text) ELSE Placeholder

-----------------------------------------------------------------------------
(* run_cli: messages *)

SystemText == <<"You are Tour Assistant, a collaborative travel planner. ...">>

\* line 155
system_message == [role |-> "system", content |-> PyStr(SystemText)]

\* line 178
UserMessage(user_text) == [role |-> "user", content |-> PyStr(user_text)]

\* lines 191-207
AssistantToolMessage(message) ==
  [role |-> "assistant", content |-> message.content,
   tool_calls |-> [i \in DOMAIN message.tool_calls |->
                     [id |-> message.tool_calls[i].id,
                      type |-> "function",
                      function |->
                        [name |-> message.tool_calls[i].function.name,
                         arguments |-> message.tool_calls[i].function.arguments]]]]

\* variant of ToolMessage: the back-reference is taken from the wrong field
ToolMessageWrongId(tool_call, tool_result) ==
  [role |-> "tool", tool_call_id |-> tool_call.function.name,
   content |-> JsonDumps(tool_result)]

\* lines 210-216
ToolMessage(tool_call, tool_result) ==
  [role |-> "tool", tool_call_id |-> tool_call.id, content |-> JsonDumps(tool_result)]

\* line 222
AssistantMessage(assistant_text) ==
  [role |-> "assistant", content |-> PyStr(assistant_text)]

\* variant of Appended: the oldest message after the system message is
\* dropped to make room for the new one
AppendedDropsOldest(msgs, m) ==
  IF Len(msgs) >= 3 THEN Append(<<msgs[1]>> \o SubSeq(msgs, 3, Len(msgs)), m)
  ELSE Append(msgs, m)

\* messages.append(m) (lines 178, 191, 210, 222)
Appended(msgs, m) == Append(msgs, m)

\* variant of IsExitCommand: /quit is not recognised
IsExitCommandExitOnly(lowered) == lowered = <<"/", "e", "x", "i", "t">>

\* line 170
IsExitCommand(lowered) ==
  lowered \in {<<"/", "e", "x", "i", "t">>, <<"/", "q", "u", "i", "t">>}

\* line 173
IsResetCommand(lowered) == lowered = <<"/", "r", "e", "s", "e", "t">>

\* variant of ResetTranscript: the system message is appended to a fresh
\* list that already holds it
ResetTranscriptTwice(msgs) == <<system_message, system_message>>

\* variant of ResetTranscript: the system message is dropped too
ResetTranscriptEmpty(msgs) == <<>>

\* line 174
ResetTranscript(msgs) == <<system_message>>

-----------------------------------------------------------------------------
(* The environment: typed lines, model replies, provider responses *)

Hue == PyStr(<<"Hue">>)

\* lines the user may type (input() returns them without the newline)
InputLines ==
  { <<>>,
    <<" ", "\t">>,
    <<"/", "r", "e", "s", "e", "t">>,
    <<" ", "/", "R", "e", "S", "E", "T", " ">>,
    <<"/", "e", "x", "i", "t">>,
    <<"/", "E", "X", "I", "T">>,
    <<"/", "Q", "u", "i", "t", " ">>,
    <<"H", "i">>,
    <<"/", "r", "e", "s", "e", "t", "s">> }

\* input() raising EOFError instead of returning a line
EndOfInput == <<"<EOFError>">>

\* serialized arguments a request may carry
UndecodableArgs == NotJson(<<"{city:">>)
CityArgs == JsonDumps(PyDict([city |-> Hue]))
RawArguments ==
  { UndecodableArgs,
    JsonDumps(PyList(<<>>)),
    JsonDumps(PyDict(EmptyMap)),
    CityArgs,
    JsonDumps(PyDict([city |-> Hue, hours |-> PyInt(30)])),
    JsonDumps(PyDict([city |-> Hue, hours |-> PyStr(<<"5">>)])),
    JsonDumps(PyDict([hours |-> PyInt(5)])),
    JsonDumps(PyDict([city |-> Hue, days |-> PyInt(2)])) }

ToolNames == {WeatherTool, "book_hotel"}
CallIds == {"call_1", "call_2"}

ToolCall(id, name, arguments) ==
  [id |-> id, function |-> [name |-> name, arguments |-> arguments]]

\* every request the dispatcher is exercised with
ToolCalls ==
  {ToolCall(id, n, a) : id \in {"call_1"}, n \in ToolNames, a \in RawArguments}

\* the requests the model endpoint sends in the conversation loop: a weather
\* request under either id, one whose arguments do not decode, and a request
\* for a tool that does not exist
CliToolCalls ==
  {ToolCall(id, WeatherTool, CityArgs) : id \in CallIds}
    \cup {ToolCall("call_1", WeatherTool, UndecodableArgs),
          ToolCall("call_2", "book_hotel", UndecodableArgs)}

RECURSIVE SeqsUpTo(_, _)
SeqsUpTo(S, n) ==
  IF n = 0 THEN {<<>>}
  ELSE LET shorter == SeqsUpTo(S, n - 1)
       IN shorter \cup {Append(q, x) : q \in {r \in shorter : Len(r) = n - 1}, x \in S}

TextPart(chars) == PyDict([type |-> PyStr(<<"text">>), text |-> PyStr(chars)])
ImagePart == PyDict([type |-> PyStr(<<"image_url">>)])

\* content of a reply without requests
NarrativeContents ==
  { PyStr(<<"O", "k", " ">>),
    PyStr(<<" ">>),
    PyNone,
    PyList(<<TextPart(<<"P", "a", "r", "i", "s">>), ImagePart>>) }

\* replies of the chat-completion endpoint: response.choices[0].message
ToolReplies ==
  { [content |-> c, tool_calls |-> q] :
      c \in {PyNone, PyStr(<<"O", "k", " ">>)},
      q \in SeqsUpTo(CliToolCalls, MaxCalls) \ {<<>>} }
TextReplies == { [content |-> c, tool_calls |-> <<>>] : c \in NarrativeContents }

Coords == PyDict([name |-> Hue, latitude |-> PyInt(16), longitude |-> PyInt(107)])
GeoBody(body) == [kind |-> "json", body |-> body]
GeoMatch == GeoBody(PyDict([results |-> PyList(<<Coords>>)]))

\* responses of the geocoding provider
GeoResponses ==
  { [kind |-> "transport", msg |-> "Read timed out"],
    [kind |-> "status", msg |-> "500 Server Error"],
    [kind |-> "notjson", msg |-> "Expecting value"],
    GeoMatch,
    GeoBody(PyDict([results |-> PyList(<<>>)])),
    GeoBody(PyDict(EmptyMap)),
    GeoBody(PyDict([results |-> PyList(<<PyDict([name |-> Hue,
                                                  latitude |-> PyInt(16)])>>)])),
    GeoBody(PyList(<<>>)) }

Timestamps(n) == [i \in 1..n |-> PyStr(<<"hour ", ToString(i)>>)]
Temperatures(n) == [i \in 1..n |-> PyInt(20 + i)]
Precipitations(n) == [i \in 1..n |-> PyInt(10 * i)]

FcBody(nTimes, nTemps, nPrecip) ==
  [kind |-> "json",
   body |-> PyDict([hourly |->
              PyDict([time |-> PyList(Timestamps(nTimes)),
                      temperature_2m |-> PyList(Temperatures(nTemps)),
                      precipitation_probability |-> PyList(Precipitations(nPrecip))])])]

\* responses of the forecast provider
FcResponses ==
  { [kind |-> "transport", msg |-> "Read timed out"],
    [kind |-> "status", msg |-> "503 Service Unavailable"],
    [kind |-> "notjson", msg |-> "Expecting value"],
    [kind |-> "json", body |-> PyDict(EmptyMap)],
    [kind |-> "json", body |-> PyDict([hourly |-> PyNone])],
    [kind |-> "json", body |-> PyList(<<>>)] }
  \cup { FcBody(nTimes, nTemps, nPrecip) :
           nTimes \in 0..MaxT, nTemps \in 0..MaxT, nPrecip \in 0..MaxT }
  \cup { FcBody(n, n, n) : n \in 24..MaxLongT }

\* provider responses during the conversation loop
CliGeoResponses == { [kind |-> "transport", msg |-> "Read timed out"], GeoMatch }
CliFcResponses == { FcBody(2, 1, 2) }

-----------------------------------------------------------------------------
(* run_cli: the conversation loop *)

Init ==
  /\ messages = <<system_message>>
  /\ pc = "input"
  /\ pending = <<>>
  /\ line = <<>>
  /\ modelCalls = 0
  /\ printed = <<>>
  /\ dispatched = <<>>
  /\ fault = ""
  /\ op = "none"
  /\ call = <<>>
  /\ outcome = Returned(PyNone, 0, 0)

\* lines 161-164: end of input
InputEOF ==
  /\ pc = "input"
  /\ line' = EndOfInput
  /\ pc' = "done"
  /\ UNCHANGED <<messages, pending, modelCalls, printed, dispatched, fault>>
  /\ UNCHANGED toolVars

\* lines 161-167: an empty line
InputEmpty ==
  /\ pc = "input"
  /\ \E raw \in InputLines :
       /\ Strip(raw) = <<>>
       /\ line' = raw
  /\ UNCHANGED <<messages, pc, pending, modelCalls, printed, dispatched, fault>>
  /\ UNCHANGED toolVars

\* lines 161-172: /exit, /quit
InputExit ==
  /\ pc = "input"
  /\ \E raw \in InputLines :
       /\ Strip(raw) # <<>>
       /\ IsExitCommand(Lower(Strip(raw)))
       /\ line' = raw
  /\ pc' = "done"
  /\ UNCHANGED <<messages, pending, modelCalls, printed, dispatched, fault>>
  /\ UNCHANGED toolVars

\* lines 161-176: /reset
InputReset ==
  /\ pc = "input"
  /\ \E raw \in InputLines :
       /\ Strip(raw) # <<>>
       /\ ~IsExitCommand(Lower(Strip(raw)))
       /\ IsResetCommand(Lower(Strip(raw)))
       /\ line' = raw
  /\ messages' = ResetTranscript(messages)
  /\ UNCHANGED <<pc, pending, modelCalls, printed, dispatched, fault>>
  /\ UNCHANGED toolVars

\* lines 161-178: a chat line
InputUser ==
  /\ pc = "input"
  /\ Len(messages) + 2 <= MaxMsgs
  /\ modelCalls < MaxModelCalls
  /\ \E raw \in InputLines :
       /\ Strip(raw) # <<>>
       /\ ~IsExitCommand(Lower(Strip(raw)))
       /\ ~IsResetCommand(Lower(Strip(raw)))
       /\ line' = raw
       /\ messages' = Appended(messages, UserMessage(Strip(raw)))
  /\ pc' = "model"
  /\ UNCHANGED <<pending, modelCalls, printed, dispatched, fault>>
  /\ UNCHANGED toolVars

\* variant of ModelToolReply: requests are accepted only in the first reply
\* of a user turn
ModelToolReplyFirstRoundOnly ==
  /\ pc = "model"
  /\ messages[Len(messages)].role = "user"
  /\ modelCalls + 1 < MaxModelCalls
  /\ \E message \in ToolReplies :
       /\ Len(messages) + 2 + Len(message.tool_calls) <= MaxMsgs
       /\ messages' = Appended(messages, AssistantToolMessage(message))
       /\ pending' = message.tool_calls
  /\ dispatched' = <<>>
  /\ modelCalls' = modelCalls + 1
  /\ pc' = "dispatch"
  /\ UNCHANGED <<line, printed, fault>>
  /\ UNCHANGED toolVars

\* lines 181-207: the reply carries requests
ModelToolReply ==
  /\ pc = "model"
  /\ modelCalls + 1 < MaxModelCalls
  /\ \E message \in ToolReplies :
       /\ Len(messages) + 2 + Len(message.tool_calls) <= MaxMsgs
       /\ messages' = Appended(messages, AssistantToolMessage(message))
       /\ pending' = message.tool_calls
  /\ dispatched' = <<>>
  /\ modelCalls' = modelCalls + 1
  /\ pc' = "dispatch"
  /\ UNCHANGED <<line, printed, fault>>
  /\ UNCHANGED toolVars

\* variant of ModelTextReply: the inner loop is not left after the narrative
ModelTextReplyNoBreak ==
  /\ pc = "model"
  /\ Len(messages) < MaxMsgs
  /\ modelCalls < MaxModelCalls
  /\ \E message \in TextReplies :
       LET assistant_text == ExtractText(message.content) IN
       /\ printed' = Printable(assistant_text)
       /\ messages' = Appended(messages, AssistantMessage(assistant_text))
  /\ modelCalls' = modelCalls + 1
  /\ pc' = "model"
  /\ UNCHANGED <<pending, line, dispatched, fault>>
  /\ UNCHANGED toolVars

\* variant of ModelTextReply: the displayed text is what is appended
ModelTextReplyStoresPrintable ==
  /\ pc = "model"
  /\ \E message \in TextReplies :
       LET assistant_text == ExtractText(message.content) IN
       /\ printed' = Printable(assistant_text)
       /\ messages' = Appended(messages, AssistantMessage(Printable(assistant_text)))
  /\ modelCalls' = modelCalls + 1
  /\ pc' = "input"
  /\ UNCHANGED <<pending, line, dispatched, fault>>
  /\ UNCHANGED toolVars

\* lines 181-190, 219-223: the reply carries no request
ModelTextReply ==
  /\ pc = "model"
  /\ \E message \in TextReplies :
       LET assistant_text == ExtractText(message.content) IN
       /\ printed' = Printable(assistant_text)
       /\ messages' = Appended(messages, AssistantMessage(assistant_text))
  /\ modelCalls' = modelCalls + 1
  /\ pc' = "input"
  /\ UNCHANGED <<pending, line, dispatched, fault>>
  /\ UNCHANGED toolVars

\* lines 181-187: the completion call itself fails; run_cli does not catch it
ModelCallFails ==
  /\ pc = "model"
  /\ modelCalls' = modelCalls + 1
  /\ pc' = "raised"
  /\ fault' = "APIError"
  /\ UNCHANGED <<messages, pending, line, printed, dispatched>>
  /\ UNCHANGED toolVars

\* variant of AfterDispatch: the loop breaks out to the prompt after the batch
AfterDispatchToUser(rest) == IF rest = <<>> THEN "input" ELSE "dispatch"

\* where the loop goes after a request is answered (lines 208, 217)
AfterDispatch(rest) == IF rest = <<>> THEN "model" ELSE "dispatch"

\* the requests still to dispatch after the first (line 208)
RestOf(calls) == Tail(calls)

\* lines 208-217: one iteration of the dispatch loop, handle_tool_call returns
DispatchReturns ==
  /\ pc = "dispatch"
  /\ pending # <<>>
  /\ \E geo \in CliGeoResponses, fc \in CliFcResponses :
       LET tool_call == Head(pending)
           r == HandleToolCall(tool_call, geo, fc)
       IN /\ ~r.raised
          /\ messages' = Appended(messages, ToolMessage(tool_call, r.value))
          /\ dispatched' = Append(dispatched, tool_call.id)
  /\ pending' = RestOf(pending)
  /\ pc' = AfterDispatch(RestOf(pending))
  /\ UNCHANGED <<line, modelCalls, printed, fault>>
  /\ UNCHANGED toolVars

\* lines 208-209: handle_tool_call raises; run_cli does not catch it
DispatchRaises ==
  /\ pc = "dispatch"
  /\ pending # <<>>
  /\ \E geo \in CliGeoResponses, fc \in CliFcResponses :
       LET tool_call == Head(pending)
           r == HandleToolCall(tool_call, geo, fc)
       IN /\ r.raised
          /\ fault' = r.exc
          /\ dispatched' = Append(dispatched, tool_call.id)
  /\ pc' = "raised"
  /\ UNCHANGED <<messages, pending, line, modelCalls, printed>>
  /\ UNCHANGED toolVars

Next ==
  \/ InputEOF
  \/ InputEmpty
  \/ InputExit
  \/ InputReset
  \/ InputUser
  \/ ModelToolReply
  \/ ModelTextReply
  \/ ModelCallFails
  \/ DispatchReturns
  \/ DispatchRaises

Spec == Init /\ [][Next]_vars

-----------------------------------------------------------------------------
(* Direct calls of handle_tool_call and fetch_weather_window *)

HoursValues == (0 - 1) .. 26

\* the run_cli variables at their initial values
CliIdle ==
  /\ messages = <<system_message>>
  /\ pc = "input"
  /\ pending = <<>>
  /\ line = <<>>
  /\ modelCalls = 0
  /\ printed = <<>>
  /\ dispatched = <<>>
  /\ fault = ""

\* a call about to be made: the function, its arguments and the responses
\* the providers will give
InitTool ==
  /\ CliIdle
  /\ outcome = Returned(PyNone, 0, 0)
  /\ \E geo \in GeoResponses, fc \in FcResponses :
       \/ /\ op = "call handle_tool_call"
          /\ \E tool_call \in ToolCalls :
               call = [tool_call |-> tool_call, geo |-> geo, fc |-> fc]
       \/ /\ op = "call fetch_weather_window"
          /\ \E hours \in HoursValues :
               call = [city |-> Hue, hours |-> PyInt(hours), geo |-> geo, fc |-> fc]

\* handle_tool_call(tool_call)
CallHandleToolCall ==
  /\ op = "call handle_tool_call"
  /\ op' = "handle_tool_call"
  /\ outcome' = HandleToolCall(call.tool_call, call.geo, call.fc)
  /\ UNCHANGED call
  /\ UNCHANGED cliVars

\* fetch_weather_window(city, hours)
CallFetchWeatherWindow ==
  /\ op = "call fetch_weather_window"
  /\ op' = "fetch_weather_window"
  /\ outcome' = FetchWeatherWindow(call.city, call.hours, call.geo, call.fc)
  /\ UNCHANGED call
  /\ UNCHANGED cliVars

NextTool == CallHandleToolCall \/ CallFetchWeatherWindow

SpecTool == InitTool /\ [][NextTool]_vars

-----------------------------------------------------------------------------
(* Vocabulary of the properties *)

Last(q) == q[Len(q)]
HasRequests(m) == m.role = "assistant" /\ "tool_calls" \in DOMAIN m
IsPrefixOf(p, q) == Len(p) <= Len(q) /\ \A i \in DOMAIN p : p[i] = q[i]

\* the ids of the requests of an assistant message, in order
RequestIds(m) == [i \in DOMAIN m.tool_calls |-> m.tool_calls[i].id]

\* raw is word (given in lower case) in some letter casing, possibly
\* surrounded by blanks
IsCasingOf(raw, word) ==
  LET typed == Strip(raw) IN
  /\ Len(typed) = Len(word)
  /\ \A i \in DOMAIN word :
       \/ typed[i] = word[i]
       \/ \E k \in DOMAIN UpperCase : UpperCase[k] = typed[i] /\ LowerCase[k] = word[i]

EntersReset(raw) == IsCasingOf(raw, <<"/", "r", "e", "s", "e", "t">>)
EntersExit(raw) ==
  \/ IsCasingOf(raw, <<"/", "e", "x", "i", "t">>)
  \/ IsCasingOf(raw, <<"/", "q", "u", "i", "t">>)

\* the request the dispatch loop is at
Current == Head(pending)
HasUndecodableArguments(tool_call) == "json" \notin DOMAIN tool_call.function.arguments

-----------------------------------------------------------------------------
(* Properties *)

\* C1: every tool-result message of the transcript carries the id of one of
\* the requests of the nearest preceding assistant message, and only
\* tool-result messages lie between that assistant message and it.
C1_ToolResultsMatchBatch ==
  \A k \in DOMAIN messages :
    messages[k].role = "tool" =>
      \E j \in 1..(k - 1) :
        /\ HasRequests(messages[j])
        /\ \A i \in (j + 1)..k : messages[i].role = "tool"
        /\ \E c \in DOMAIN messages[j].tool_calls :
             messages[j].tool_calls[c].id = messages[k].tool_call_id

\* C1 case: a batch of two requests has both its tool-results in the transcript
C1_Witness ==
  \E k \in DOMAIN messages :
    /\ k > 2
    /\ messages[k].role = "tool"
    /\ messages[k - 1].role = "tool"
    /\ messages[k].tool_call_id # messages[k - 1].tool_call_id

\* the assistant message at j is followed by exactly one tool-result per
\* request, in the order of the requests, and then by no further tool-result
BatchAnswered(j) ==
  LET ids == RequestIds(messages[j])
      n == Len(messages[j].tool_calls)
  IN /\ Len(messages) >= j + n
     /\ \A i \in 1..n : /\ messages[j + i].role = "tool"
                        /\ messages[j + i].tool_call_id = ids[i]
     /\ Len(messages) > j + n => messages[j + n + 1].role = "assistant"

\* C2: every request of a reply is handed to the dispatcher exactly once, in
\* order, and answered by exactly one tool-result, in order, before the loop
\* goes on; a narrative reply then follows the tool-results.  Stated for the
\* states in which the loop is not in the middle of a batch.
C2_EveryRequestDispatchedAndAnswered ==
  pc # "dispatch" =>
    \A j \in DOMAIN messages :
      HasRequests(messages[j]) =>
        /\ BatchAnswered(j)
        /\ (\A i \in (j + 1)..Len(messages) : ~HasRequests(messages[i]))
             => dispatched = RequestIds(messages[j])

\* C3: every step either leaves the transcript an unchanged prefix of the new
\* transcript or is the handling of a /reset command.
C3_AppendOnly ==
  [][ \/ IsPrefixOf(messages, messages')
      \/ (pc = "input" /\ EntersReset(line') /\ Len(messages') < Len(messages)) ]_vars

\* C3 case: the transcript was reset after a turn and has grown again
C3_Witness ==
  /\ pc = "input"
  /\ modelCalls = 2
  /\ Len(messages) = 3
  /\ Last(messages).role = "assistant"

\* C4: handle_tool_call returns a mapping for every request.
C4_DispatcherNeverThrows ==
  op = "handle_tool_call" => ~outcome.raised /\ outcome.value.t = "dict"

\* C5: dispatching a weather request whose arguments cannot be decoded does
\* not end the process: a tool-result message with an error payload for that
\* request is appended to the transcript and the loop goes on.
C5_UndecodableArgumentsRecovered ==
  [][ (pc = "dispatch" /\ pending # <<>> /\ IsWeatherTool(Current.function.name)
         /\ HasUndecodableArguments(Current))
        => /\ pc' \in {"dispatch", "model"}
           /\ fault' = ""
           /\ Len(messages') = Len(messages) + 1
           /\ IsPrefixOf(messages, messages')
           /\ Last(messages').role = "tool"
           /\ Last(messages').tool_call_id = Current.id
           /\ "json" \in DOMAIN Last(messages').content
           /\ Last(messages').content.json.t = "dict"
           /\ "error" \in DOMAIN Last(messages').content.json.d ]_vars

\* C6: fetch_weather_window returns a result mapping for every city, hours
\* and provider responses; a failure is reported in the error field.
C6_FetchNeverRaises ==
  op = "fetch_weather_window" => ~outcome.raised /\ outcome.value.t = "dict"

\* C7: a request whose name is not the weather tool's is answered with exactly
\* {error: "Unknown tool <name>"}, without a provider call and without an
\* exception, whatever its arguments.
C7_UnknownTool ==
  (op = "handle_tool_call" /\ call.tool_call.function.name # "fetch_weather_window")
    => /\ ~outcome.raised
       /\ outcome.value =
            PyDict([error |-> PyStr(<<"Unknown tool ", call.tool_call.function.name>>)])
       /\ outcome.geoCalls = 0
       /\ outcome.fcCalls = 0

\* C7 case: an unknown tool was requested with arguments that do not decode
C7_Witness ==
  /\ op = "handle_tool_call"
  /\ call.tool_call.function.name = "book_hotel"
  /\ HasUndecodableArguments(call.tool_call)
  /\ ~outcome.raised

\* C8: the loop is never waiting for user input while the last message of
\* the transcript is a tool-result or an assistant message with requests.
C8_NoInputBeforeFollowUp ==
  pc = "input" => /\ Last(messages).role # "tool"
                  /\ ~HasRequests(Last(messages))

\* C8 case: the loop is back at the prompt after a dispatched batch and the
\* model's follow-up
C8_Witness ==
  /\ pc = "input"
  /\ Len(messages) >= 5
  /\ messages[Len(messages) - 1].role = "tool"
  /\ Last(messages).role = "assistant"

\* C9: reading /reset in any casing leaves the transcript equal to the single
\* system message, makes no model call and stays at the prompt.
C9_Reset ==
  [][ (pc = "input" /\ EntersReset(line'))
        => /\ messages' = <<system_message>>
           /\ modelCalls' = modelCalls
           /\ pc' = "input" ]_vars

\* C9 case: /reset in mixed casing was entered after a turn with a tool batch
C9_Witness ==
  /\ pc = "input"
  /\ line = <<" ", "/", "R", "e", "S", "E", "T", " ">>
  /\ messages = <<system_message>>
  /\ modelCalls = 2

\* C10: reading /exit or /quit in any casing ends the loop without a model
\* call or a transcript change, and nothing happens after the loop has ended.
C10_ExitTerminates ==
  [][ /\ (pc = "input" /\ EntersExit(line'))
          => (pc' = "done" /\ messages' = messages /\ modelCalls' = modelCalls)
      /\ pc = "done" => UNCHANGED <<messages, modelCalls, line, pc>> ]_vars

\* C10 case: /EXIT was entered after a completed turn
C10_Witness ==
  /\ pc = "done"
  /\ line = <<"/", "E", "X", "I", "T">>
  /\ modelCalls > 0
  /\ Len(messages) > 1

\* a line that is empty or holds only blanks
IsBlankLine(raw) == \A i \in DOMAIN raw : raw[i] \in {" ", "\t"}

\* C11: reading an empty or whitespace-only line changes nothing: the
\* transcript is unchanged, no model call is made and the loop stays at the
\* prompt.
C11_EmptyInputIgnored ==
  [][ (pc = "input" /\ line' # EndOfInput /\ IsBlankLine(line'))
        => /\ messages' = messages
           /\ modelCalls' = modelCalls
           /\ pc' = "input" ]_vars

\* C11 case: a whitespace-only line was read after a completed turn
C11_Witness ==
  /\ pc = "input"
  /\ line = <<" ", "\t">>
  /\ Len(messages) = 3
  /\ modelCalls = 1

\* the last direct call was fetch_weather_window and it returned samples
FetchSucceeded ==
  /\ op = "fetch_weather_window"
  /\ ~outcome.raised
  /\ outcome.value.t = "dict"
  /\ "samples" \in DOMAIN outcome.value.d

\* the samples of the result, and the hours the caller asked for
ResultSamples == outcome.value.d["samples"].items
RequestedHours == call.hours.v

\* C12 as stated: window_hours equals the number of samples and is at most
\* the hours the caller asked for, for any integer hours.
C12_WindowAtMostRequested ==
  FetchSucceeded =>
    /\ outcome.value.d["window_hours"] = PyInt(Len(ResultSamples))
    /\ Len(ResultSamples) <= RequestedHours

\* C12 amended: window_hours equals the number of samples; it is at most the
\* hours the caller asked for when that is 1 or more, and at most 1 otherwise.
C12_WindowAtMostRequestedFromOne ==
  FetchSucceeded =>
    /\ outcome.value.d["window_hours"] = PyInt(Len(ResultSamples))
    /\ IF RequestedHours >= 1 THEN Len(ResultSamples) <= RequestedHours
       ELSE Len(ResultSamples) <= 1

\* C12 case: the caller asked for 0 hours, the provider had data, and one
\* sample came back
C12_Witness ==
  /\ FetchSucceeded
  /\ RequestedHours = 0
  /\ outcome.value.d["window_hours"] = PyInt(1)
  /\ Len(ResultSamples) = 1

\* the last direct call was fetch_weather_window, geocoding gave a match with
\* coordinates and the forecast provider gave a JSON body with hourly series
\* (or without an "hourly" entry)
ProvidersAnswered ==
  /\ op = "fetch_weather_window"
  /\ call.geo = GeoMatch
  /\ call.fc.kind = "json"
  /\ call.fc.body.t = "dict"
  /\ "hourly" \in DOMAIN call.fc.body.d => call.fc.body.d["hourly"].t = "dict"

\* the hourly timestamps the forecast provider gave
ProvidedTimes ==
  IF "hourly" \in DOMAIN call.fc.body.d
  THEN call.fc.body.d["hourly"].d["time"].items
  ELSE <<>>

\* clamp(h, 1, 24)
Clamp1To24(h) == IF h < 1 THEN 1 ELSE IF h > 24 THEN 24 ELSE h

\* C13: for every integer hours and every forecast with T timestamps the call
\* succeeds with exactly min(clamp(hours, 1, 24), T) samples; hours out of
\* range is never rejected.
C13_ClampedWindow ==
  ProvidersAnswered =>
    /\ FetchSucceeded
    /\ "error" \notin DOMAIN outcome.value.d
    /\ Len(ResultSamples) =
         (IF Clamp1To24(RequestedHours) < Len(ProvidedTimes)
          THEN Clamp1To24(RequestedHours) ELSE Len(ProvidedTimes))

\* C13 case: 26 hours asked of a forecast with 26 timestamps gives 24 samples
C13_Witness ==
  /\ ProvidersAnswered
  /\ FetchSucceeded
  /\ RequestedHours = 26
  /\ Len(ProvidedTimes) = 26
  /\ Len(ResultSamples) = 24

\* the last direct call was fetch_weather_window and it returned a result
FetchReturned ==
  /\ op = "fetch_weather_window"
  /\ ~outcome.raised
  /\ outcome.value.t = "dict"

\* C14: a result of fetch_weather_window never has both error and samples: a
\* result with an error field has exactly the fields city and error, and a
\* result with samples has no error field.
C14_ErrorOrSamples ==
  FetchReturned =>
    LET fields == DOMAIN outcome.value.d IN
    /\ "error" \in fields => fields = {"city", "error"}
    /\ "samples" \in fields => "error" \notin fields
    /\ "error" \in fields \/ "samples" \in fields

\* C14 case: geocoding found the city and the forecast call failed
C14_Witness ==
  /\ FetchReturned
  /\ call.geo = GeoMatch
  /\ call.fc.kind = "status"
  /\ outcome.value =
       PyDict([city |-> call.city,
               error |-> PyStr(<<"Forecast fetch failed: ", call.fc.msg>>)])

\* the geocoding provider answered with at least one match
GeocodingMatched ==
  /\ call.geo.kind = "json"
  /\ call.geo.body.t = "dict"
  /\ "results" \in DOMAIN call.geo.body.d
  /\ call.geo.body.d["results"].t = "list"
  /\ call.geo.body.d["results"].items # <<>>

\* C15: one invocation issues the geocoding call at most once and the
\* forecast call at most once, and the forecast call only after a geocoding
\* call that gave a match; never after a failed or empty geocoding.
C15_ProviderCalls ==
  op = "fetch_weather_window" =>
    /\ outcome.geoCalls <= 1
    /\ outcome.fcCalls <= 1
    /\ outcome.fcCalls = 1 => (outcome.geoCalls = 1 /\ GeocodingMatched)
    /\ ~GeocodingMatched => outcome.fcCalls = 0

\* C15 case: the geocoding call failed in transport; no forecast call followed
C15_Witness ==
  /\ op = "fetch_weather_window"
  /\ call.geo.kind = "transport"
  /\ outcome.geoCalls = 1
  /\ outcome.fcCalls = 0
  /\ outcome.value =
       PyDict([city |-> call.city,
               error |-> PyStr(<<"Geocoding failed: ", call.geo.msg>>)])

\* a series of the forecast body the provider gave
ProvidedSeries(key) ==
  IF "hourly" \in DOMAIN call.fc.body.d
  THEN call.fc.body.d["hourly"].d[key].items
  ELSE <<>>

\* C16: in a successful result sample i has the i-th timestamp, the i-th
\* temperature when the temperature series has one and null otherwise, and
\* the i-th precipitation value when that series has one and null otherwise.
C16_SamplesPositional ==
  FetchSucceeded =>
    LET times == ProvidedSeries("time")
        temps == ProvidedSeries("temperature_2m")
        precip == ProvidedSeries("precipitation_probability")
    IN \A i \in DOMAIN ResultSamples :
         /\ DOMAIN ResultSamples[i].d =
              {"time", "temperature_c", "precipitation_probability"}
         /\ ResultSamples[i].d["time"] = times[i]
         /\ ResultSamples[i].d["temperature_c"] =
              (IF i <= Len(temps) THEN temps[i] ELSE PyNone)
         /\ ResultSamples[i].d["precipitation_probability"] =
              (IF i <= Len(precip) THEN precip[i] ELSE PyNone)

\* C16 case: 5 timestamps with 3 temperatures give 5 samples whose last 2
\* temperatures are null
C16_Witness ==
  /\ FetchSucceeded
  /\ Len(ProvidedSeries("time")) = 5
  /\ Len(ProvidedSeries("temperature_2m")) = 3
  /\ Len(ResultSamples) = 5
  /\ ResultSamples[3].d["temperature_c"] = PyInt(23)
  /\ ResultSamples[4].d["temperature_c"] = PyNone
  /\ ResultSamples[5].d["temperature_c"] = PyNone

\* the last message is an assistant message without requests: the reply
\* most recently displayed
NarrativeLast == Last(messages).role = "assistant" /\ ~HasRequests(Last(messages))

\* C17: when the text extracted from a reply without requests is empty after
\* trimming, the placeholder is displayed while the transcript carries the
\* extracted text itself; the placeholder is never transcript content.
C17_PlaceholderDisplayOnly ==
  /\ NarrativeLast =>
       LET text == Last(messages).content.s IN
       IF IsBlankLine(text)
       THEN printed = <<"Assistant returned no narrative.">>
       ELSE printed # <<"Assistant returned no narrative.">>
  /\ \A i \in DOMAIN messages :
       messages[i].content # PyStr(<<"Assistant returned no narrative.">>)

\* C17 case: the reply's text was a single blank: the placeholder was
\* displayed and the blank was appended
C17_Witness ==
  /\ pc = "input"
  /\ NarrativeLast
  /\ Last(messages).content = PyStr(<<" ">>)
  /\ printed = <<"Assistant returned no narrative.">>

\* the bounds of the model leave room for one more reply with a request
RoomForAnotherRound ==
  /\ modelCalls + 1 < MaxModelCalls
  /\ Len(messages) + 3 <= MaxMsgs

\* C18: nothing in the loop counts the dispatch rounds of a user turn: while
\* the loop awaits a model reply, a reply with requests starts another round
\* however many rounds the turn has had (up to the bounds of the model), and
\* the loop returns to the prompt only by a reply without requests.
C18_RoundsUnbounded ==
  [][ /\ (pc = "model" /\ RoomForAnotherRound) => ENABLED ModelToolReply
      /\ (pc # "input" /\ pc' = "input")
           => (pc = "model" /\ Len(messages') = Len(messages) + 1 /\ NarrativeLast') ]_vars

\* C18 case: one user turn has had two dispatch rounds and awaits the model
\* again
C18_Witness ==
  /\ pc = "model"
  /\ Len(messages) = 6
  /\ messages[2].role = "user"
  /\ HasRequests(messages[3])
  /\ messages[4].role = "tool"
  /\ HasRequests(messages[5])
  /\ messages[6].role = "tool"

\* C19: the transcript is never empty, its first message is the original
\* system message, and no other message has role "system".
C19_SystemMessageFirstAndOnly ==
  /\ Len(messages) >= 1
  /\ messages[1] = [role |-> "system", content |-> PyStr(SystemText)]
  /\ \A i \in 2..Len(messages) : messages[i].role # "system"

\* C19 case: right after a /reset that followed a turn
C19_Witness ==
  /\ pc = "input"
  /\ line = <<"/", "r", "e", "s", "e", "t">>
  /\ modelCalls = 1
  /\ Len(messages) = 1
  /\ messages[1].role = "system"

\* C20: a model call is made only with a transcript whose last message has
\* role "user" or "tool", and while the loop waits for user input the last
\* message is the system message or an assistant message without requests.
C20_LastMessageRoles ==
  /\ pc = "model" => Last(messages).role \in {"user", "tool"}
  /\ pc = "input" =>
       \/ (Len(messages) = 1 /\ Last(messages).role = "system")
       \/ (Last(messages).role = "assistant" /\ "tool_calls" \notin DOMAIN Last(messages))

\* C20 case: the model is about to be called after a batch of tool-results
C20_Witness ==
  /\ pc = "model"
  /\ modelCalls = 1
  /\ Last(messages).role = "tool"
  /\ messages[Len(messages) - 1].role = "tool"

====
